---- MODULE Spec2Model ----
(***************************************************************************)
(* Resolver layer of the Employee Management System GraphQL API            *)
(* (src/server.js) over its two Mongoose collections, User and Employee.   *)
(*                                                                         *)
(* Strings are sequences of one-character strings; the absent / null       *)
(* GraphQL argument is the value Null.  Each resolver is one action,       *)
(* except signup, which is split where the store answers (findOne, save)   *)
(* so that concurrent signups interleave as they do on the event loop;     *)
(* bcrypt.hash touches no shared state and is taken with the save.  The    *)
(* other resolvers make one store call each.  The response most recently   *)
(* delivered to a client is kept in `last`.  Employee identifiers are      *)
(* opaque: 0 stands for the empty string, 1..MaxIds for ObjectIds.         *)
(*                                                                         *)
(* Error kinds: every resolver error is a UserInputError told apart by its *)
(* message; the kinds below name them as the specification does:           *)
(*   InvalidArgument   - "... is required" / "Invalid email format" / ...  *)
(*   NotFound          - "User not found" / "Employee not found"           *)
(*   InvalidCredential - "Invalid credentials"                             *)
(*   AlreadyExists     - "User already exists"                             *)
(*   DuplicateKey      - the store's E11000 error, propagated by save()    *)
(***************************************************************************)
EXTENDS Integers, Sequences, FiniteSets, TLC

VARIABLES users, employees, nextId, procs, last

vars == <<users, employees, nextId, procs, last>>

----------------------------------------------------------------------------
(* Bounds of the model *)

MaxProcs == 2
MaxIds == 2
MaxBadFields == 2

(* Program constants *)

MinPasswordLen == 6
MinSalary == 1000
BcryptCost == 12

----------------------------------------------------------------------------
(* Strings *)

E == <<>>
SP == <<" ">>
Null == <<"\\null">>

IsWS(c) == c = " "

RECURSIVE TrimStart(_)
TrimStart(s) ==
  IF s = E THEN E
  ELSE IF IsWS(Head(s)) THEN TrimStart(Tail(s)) ELSE s

RECURSIVE TrimEnd(_)
TrimEnd(s) ==
  IF s = E THEN E
  ELSE IF IsWS(s[Len(s)]) THEN TrimEnd(SubSeq(s, 1, Len(s) - 1)) ELSE s

trim(s) == TrimEnd(TrimStart(s))

(* JavaScript's !x for a string-or-null value *)
Falsy(s) == s = Null \/ s = E

(* !s || s.trim() === "" *)
Blank(s) == Falsy(s) \/ trim(s) = E

(* one or more characters, none of them whitespace or "@" *)
NoWsAt(s, lo, hi) ==
  /\ lo <= hi
  /\ \A k \in lo..hi : ~IsWS(s[k]) /\ s[k] # "@"

(* /^[^\s@]+@[^\s@]+\.[^\s@]+$/.test(s) *)
emailRegexTest(s) ==
  \E i \in 1..Len(s) : \E j \in 1..Len(s) :
    /\ i < j
    /\ s[i] = "@"
    /\ s[j] = "."
    /\ NoWsAt(s, 1, i - 1)
    /\ NoWsAt(s, i + 1, j - 1)
    /\ NoWsAt(s, j + 1, Len(s))

----------------------------------------------------------------------------
(* Argument pools *)

P5 == <<"1", "2", "3", "4", "5">>
P6 == <<"1", "2", "3", "4", "5", "6">>
Q6 == <<"s", "e", "c", "r", "e", "t">>
MailA == <<"a", "@", "b", ".", "c">>
MailD == <<"d", "@", "b", ".", "c">>

Usernames == {E, SP, <<"a">>, <<"b">>}
Emails == {E, <<"a", "@", "b">>, MailA, MailD}
Passwords == {P5, P6}
MorePasswords == {P5, P6, Q6}
LoginPasswords == {E, P6, Q6}
Salts == {"s1"}
MoreSalts == {"s1", "s2"}

----------------------------------------------------------------------------
(* bcryptjs *)

(* bcrypt.hash(password, 12) with the salt it generates *)
bcryptHash(password, salt) ==
  [cost |-> BcryptCost, salt |-> salt, digest |-> <<salt, password>>]

(* bcrypt.compare(password, hash) *)
bcryptCompare(password, hash) ==
  hash = bcryptHash(password, hash.salt)

----------------------------------------------------------------------------
(* Responses *)

Ok(op, args, doc) ==
  [op |-> op, args |-> args, kind |-> "Ok", invalidArgs |-> <<>>, value |-> {doc}]

Err(op, args, kind, invalidArgs) ==
  [op |-> op, args |-> args, kind |-> kind, invalidArgs |-> invalidArgs, value |-> {}]

----------------------------------------------------------------------------
(* User collection *)

(* a lookup by username alone *)
UserMatchesUsernameOnly(username, email) ==
  {users[i] : i \in {k \in 1..Len(users) : users[k].username = username}}

(* User.findOne({ $or: [{ username }, { email }] }): the documents matching *)
UserMatches(username, email) ==
  {users[i] : i \in {k \in 1..Len(users) : users[k].username = username \/ users[k].email = email}}

(* a collection without unique indexes *)
UserSaveAllowedNoIndex(doc) == TRUE

(* unique: true on username and on email *)
UserSaveAllowed(doc) ==
  \A i \in 1..Len(users) : users[i].username # doc.username /\ users[i].email # doc.email

NewUser(username, email, hashed) ==
  [username |-> username, email |-> email, password |-> hashed]

----------------------------------------------------------------------------
(* signup *)

IdleProc == [pc |-> "idle", username |-> E, email |-> E, password |-> E]

(* the password threshold off by one *)
SignupInvalidShortOk(username, email, password) ==
  IF Blank(username) THEN <<"username">>
  ELSE IF Blank(email) THEN <<"email">>
  ELSE IF ~emailRegexTest(email) THEN <<"email">>
  ELSE IF Falsy(password) \/ Len(password) < MinPasswordLen - 1 THEN <<"password">>
  ELSE <<>>

(* the four validations, in order; <<>> when all pass *)
SignupInvalid(username, email, password) ==
  IF Blank(username) THEN <<"username">>
  ELSE IF Blank(email) THEN <<"email">>
  ELSE IF ~emailRegexTest(email) THEN <<"email">>
  ELSE IF Falsy(password) \/ Len(password) < MinPasswordLen THEN <<"password">>
  ELSE <<>>

SignupArgs(p) ==
  [username |-> procs[p].username, email |-> procs[p].email, password |-> procs[p].password]

(* the resolver is entered: validation runs synchronously, then findOne is issued *)
SignupCall(p, username, email, password) ==
  /\ procs[p].pc = "idle"
  /\ LET args == [username |-> username, email |-> email, password |-> password]
         bad == SignupInvalid(username, email, password)
     IN IF bad # <<>>
        THEN /\ last' = Err("signup", args, "InvalidArgument", bad)
             /\ UNCHANGED procs
        ELSE /\ procs' = [procs EXCEPT ![p] =
                            [pc |-> "find", username |-> username, email |-> email,
                             password |-> password]]
             /\ UNCHANGED last
  /\ UNCHANGED <<users, employees, nextId>>

(* await User.findOne(...) answers; on a miss the resolver goes on to bcrypt.hash *)
SignupFind(p) ==
  /\ procs[p].pc = "find"
  /\ IF UserMatches(procs[p].username, procs[p].email) # {}
     THEN /\ last' = Err("signup", SignupArgs(p), "AlreadyExists", <<"username", "email">>)
          /\ procs' = [procs EXCEPT ![p] = IdleProc]
     ELSE /\ procs' = [procs EXCEPT ![p].pc = "save"]
          /\ UNCHANGED last
  /\ UNCHANGED <<users, employees, nextId>>

(* await bcrypt.hash(password, 12) has answered with a hash under a fresh salt, *)
(* and the store executes newUser.save()                                         *)
SignupSave(p, salt) ==
  /\ procs[p].pc = "save"
  /\ LET hashedPassword == bcryptHash(procs[p].password, salt)
         doc == NewUser(procs[p].username, procs[p].email, hashedPassword)
     IN IF UserSaveAllowed(doc)
        THEN /\ users' = Append(users, doc)
             /\ last' = Ok("signup", SignupArgs(p), doc)
        ELSE /\ UNCHANGED users
             /\ last' = Err("signup", SignupArgs(p), "DuplicateKey", <<>>)
  /\ procs' = [procs EXCEPT ![p] = IdleProc]
  /\ UNCHANGED <<employees, nextId>>

----------------------------------------------------------------------------
(* login *)

LoginUsernames == {Null, <<"a">>, <<"b">>}
LoginEmails == {Null, MailA, MailD}

(* login that skips the password comparison *)
loginNoCompare(username, email, password) ==
  /\ LET args == [username |-> username, email |-> email, password |-> password]
     IN IF (Falsy(username) /\ Falsy(email)) \/ Falsy(password)
        THEN last' = Err("login", args, "InvalidArgument", <<"username/email", "password">>)
        ELSE IF UserMatches(username, email) = {}
        THEN last' = Err("login", args, "NotFound", <<>>)
        ELSE \E user \in UserMatches(username, email) : last' = Ok("login", args, user)
  /\ UNCHANGED <<users, employees, nextId, procs>>

login(username, email, password) ==
  /\ LET args == [username |-> username, email |-> email, password |-> password]
     IN IF (Falsy(username) /\ Falsy(email)) \/ Falsy(password)
        THEN last' = Err("login", args, "InvalidArgument", <<"username/email", "password">>)
        ELSE IF UserMatches(username, email) = {}
        THEN last' = Err("login", args, "NotFound", <<>>)
        ELSE \E user \in UserMatches(username, email) :
               IF ~bcryptCompare(password, user.password)
               THEN last' = Err("login", args, "InvalidCredential", <<>>)
               ELSE last' = Ok("login", args, user)
  /\ UNCHANGED <<users, employees, nextId, procs>>

----------------------------------------------------------------------------
(* Employee collection *)

RequiredStrings == {"first_name", "last_name", "designation", "department"}
RequiredFields == RequiredStrings \cup {"salary", "date_of_joining"}
OptionalFields == {"email", "gender", "employee_photo"}
EmployeeFields == RequiredFields \cup OptionalFields

(* new Employee(args): the document built from the supplied fields *)
EmployeeDoc(args) ==
  [f \in EmployeeFields |-> IF f \in DOMAIN args THEN args[f] ELSE Null]

(* the identifiers the clients send: 0 is the empty string, the others ObjectIds *)
Eids == 0..MaxIds

Stored(eid) == eid \in DOMAIN employees

(* Employee.findById(eid) *)
findById(eid) == IF Stored(eid) THEN {[id |-> eid, doc |-> employees[eid]]} ELSE {}

(* the document replaced by the supplied fields *)
ApplyUpdateReplace(doc, updateFields) ==
  [f \in EmployeeFields |-> IF f \in DOMAIN updateFields THEN updateFields[f] ELSE Null]

(* $set of the supplied fields on one document *)
ApplyUpdate(doc, updateFields) ==
  [f \in EmployeeFields |-> IF f \in DOMAIN updateFields THEN updateFields[f] ELSE doc[f]]

----------------------------------------------------------------------------
(* Employee argument pools *)

BaseEmployee ==
  [first_name |-> <<"A">>, last_name |-> <<"B">>, designation |-> <<"E", "n", "g">>,
   salary |-> 1000, date_of_joining |-> <<"2", "0", "2", "4">>, department |-> <<"R", "D">>]

WithEmail ==
  [first_name |-> <<"A">>, last_name |-> <<"B">>, designation |-> <<"E", "n", "g">>,
   salary |-> 1000, date_of_joining |-> <<"2", "0", "2", "4">>, department |-> <<"R", "D">>,
   email |-> MailA]

(* the k-th invalid value of a required field *)
BadValue(f, k) ==
  CASE f = "salary" -> 999
    [] f = "date_of_joining" -> E
    [] f = "first_name" -> IF k = 1 THEN E ELSE SP
    [] f = "last_name" -> SP
    [] f = "designation" -> E
    [] f = "department" -> SP

BadChoices(f) == IF f = "first_name" THEN {1, 2} ELSE {1}

(* BaseEmployee with the fields of D replaced by invalid values *)
BadBags ==
  UNION {
    { [f \in DOMAIN BaseEmployee |-> IF f \in D THEN BadValue(f, c[f]) ELSE BaseEmployee[f]] :
        c \in {c \in [D -> {1, 2}] : \A f \in D : c[f] \in BadChoices(f)} } :
    D \in {D \in SUBSET RequiredFields : Cardinality(D) \in 1..MaxBadFields} }

AddBags == {BaseEmployee, WithEmail} \cup BadBags

UpdateBags ==
  { <<>>,
    [salary |-> 999],
    [first_name |-> E, department |-> <<"Q", "A">>, email |-> Null] }

----------------------------------------------------------------------------
(* Employee resolvers *)

getAllEmployees ==
  /\ last' = [op |-> "getAllEmployees", args |-> <<>>, kind |-> "Ok", invalidArgs |-> <<>>,
              value |-> {[id |-> i, doc |-> employees[i]] : i \in DOMAIN employees}]
  /\ UNCHANGED <<users, employees, nextId, procs>>

searchEmployeeByEid(eid) ==
  /\ IF eid = 0
     THEN last' = Err("searchEmployeeByEid", [eid |-> eid], "InvalidArgument", <<"eid">>)
     ELSE last' = [op |-> "searchEmployeeByEid", args |-> [eid |-> eid], kind |-> "Ok",
                   invalidArgs |-> <<>>, value |-> findById(eid)]
  /\ UNCHANGED <<users, employees, nextId, procs>>

(* department validated before salary *)
EmployeeInvalidDepartmentFirst(args) ==
  IF Blank(args.first_name) THEN <<"first_name">>
  ELSE IF Blank(args.last_name) THEN <<"last_name">>
  ELSE IF Blank(args.designation) THEN <<"designation">>
  ELSE IF Blank(args.department) THEN <<"department">>
  ELSE IF args.salary < MinSalary THEN <<"salary">>
  ELSE IF Falsy(args.date_of_joining) THEN <<"date_of_joining">>
  ELSE <<>>

(* the six validations, in order; <<>> when all pass *)
EmployeeInvalid(args) ==
  IF Blank(args.first_name) THEN <<"first_name">>
  ELSE IF Blank(args.last_name) THEN <<"last_name">>
  ELSE IF Blank(args.designation) THEN <<"designation">>
  ELSE IF args.salary < MinSalary THEN <<"salary">>
  ELSE IF Falsy(args.date_of_joining) THEN <<"date_of_joining">>
  ELSE IF Blank(args.department) THEN <<"department">>
  ELSE <<>>

(* only the six destructured fields reach the document *)
addNewEmployeeRequiredOnly(args) ==
  /\ IF EmployeeInvalid(args) # <<>>
     THEN /\ last' = Err("addNewEmployee", args, "InvalidArgument", EmployeeInvalid(args))
          /\ UNCHANGED <<employees, nextId>>
     ELSE /\ nextId <= MaxIds
          /\ LET kept == [f \in RequiredFields |-> args[f]]
             IN /\ employees' = [i \in DOMAIN employees \cup {nextId} |->
                                   IF i = nextId THEN EmployeeDoc(kept) ELSE employees[i]]
                /\ last' = Ok("addNewEmployee", args, [id |-> nextId, doc |-> EmployeeDoc(kept)])
          /\ nextId' = nextId + 1
  /\ UNCHANGED <<users, procs>>

addNewEmployee(args) ==
  /\ IF EmployeeInvalid(args) # <<>>
     THEN /\ last' = Err("addNewEmployee", args, "InvalidArgument", EmployeeInvalid(args))
          /\ UNCHANGED <<employees, nextId>>
     ELSE /\ nextId <= MaxIds
          /\ employees' = [i \in DOMAIN employees \cup {nextId} |->
                             IF i = nextId THEN EmployeeDoc(args) ELSE employees[i]]
          /\ nextId' = nextId + 1
          /\ last' = Ok("addNewEmployee", args, [id |-> nextId, doc |-> EmployeeDoc(args)])
  /\ UNCHANGED <<users, procs>>

(* findByIdAndUpdate with upsert *)
updateEmployeeByEidUpsert(eid, updateFields) ==
  /\ LET args == [eid |-> eid, updateFields |-> updateFields]
     IN IF eid = 0
        THEN /\ last' = Err("updateEmployeeByEid", args, "InvalidArgument", <<"eid">>)
             /\ UNCHANGED employees
        ELSE LET old == IF Stored(eid) THEN employees[eid] ELSE EmployeeDoc(<<>>)
             IN /\ employees' = [i \in DOMAIN employees \cup {eid} |->
                                   IF i = eid THEN ApplyUpdate(old, updateFields)
                                   ELSE employees[i]]
                /\ last' = Ok("updateEmployeeByEid", args,
                              [id |-> eid, doc |-> ApplyUpdate(old, updateFields)])
  /\ UNCHANGED <<users, nextId, procs>>

updateEmployeeByEid(eid, updateFields) ==
  /\ LET args == [eid |-> eid, updateFields |-> updateFields]
     IN IF eid = 0
        THEN /\ last' = Err("updateEmployeeByEid", args, "InvalidArgument", <<"eid">>)
             /\ UNCHANGED employees
        ELSE IF ~Stored(eid)
        THEN /\ last' = Err("updateEmployeeByEid", args, "NotFound", <<"eid">>)
             /\ UNCHANGED employees
        ELSE /\ employees' = [employees EXCEPT ![eid] = ApplyUpdate(@, updateFields)]
             /\ last' = Ok("updateEmployeeByEid", args,
                           [id |-> eid, doc |-> ApplyUpdate(employees[eid], updateFields)])
  /\ UNCHANGED <<users, nextId, procs>>

(* a delete that reports a miss, as update does *)
deleteEmployeeByEidStrict(eid) ==
  /\ IF eid = 0
     THEN /\ last' = Err("deleteEmployeeByEid", [eid |-> eid], "InvalidArgument", <<"eid">>)
          /\ UNCHANGED employees
     ELSE IF ~Stored(eid)
     THEN /\ last' = Err("deleteEmployeeByEid", [eid |-> eid], "NotFound", <<"eid">>)
          /\ UNCHANGED employees
     ELSE /\ employees' = [i \in DOMAIN employees \ {eid} |-> employees[i]]
          /\ last' = [op |-> "deleteEmployeeByEid", args |-> [eid |-> eid], kind |-> "Ok",
                      invalidArgs |-> <<>>, value |-> {"Employee deleted successfully"}]
  /\ UNCHANGED <<users, nextId, procs>>

deleteEmployeeByEid(eid) ==
  /\ IF eid = 0
     THEN /\ last' = Err("deleteEmployeeByEid", [eid |-> eid], "InvalidArgument", <<"eid">>)
          /\ UNCHANGED employees
     ELSE /\ employees' = [i \in DOMAIN employees \ {eid} |-> employees[i]]
          /\ last' = [op |-> "deleteEmployeeByEid", args |-> [eid |-> eid], kind |-> "Ok",
                      invalidArgs |-> <<>>, value |-> {"Employee deleted successfully"}]
  /\ UNCHANGED <<users, nextId, procs>>

----------------------------------------------------------------------------

Init ==
  /\ users = <<>>
  /\ employees = <<>>
  /\ nextId = 1
  /\ procs = [p \in 1..MaxProcs |-> IdleProc]
  /\ last = [op |-> "none", args |-> <<>>, kind |-> "Ok", invalidArgs |-> <<>>, value |-> {}]

SignupStep(P, pws, salts) ==
  \/ \E p \in P : \E username \in Usernames : \E email \in Emails :
       \E password \in pws : SignupCall(p, username, email, password)
  \/ \E p \in P : SignupFind(p)
  \/ \E p \in P : \E salt \in salts : SignupSave(p, salt)

(* concurrent signups *)
NextSignup == SignupStep(1..MaxProcs, Passwords, Salts)

SpecSignup == Init /\ [][NextSignup]_vars

(* logins against the users that the signups of one client create *)
NextLogin ==
  \/ SignupStep({1}, MorePasswords, MoreSalts)
  \/ \E username \in LoginUsernames : \E email \in LoginEmails :
       \E password \in LoginPasswords : login(username, email, password)

SpecLogin == Init /\ [][NextLogin]_vars

NextEmployees ==
  \/ getAllEmployees
  \/ \E eid \in Eids : searchEmployeeByEid(eid)
  \/ \E args \in AddBags : addNewEmployee(args)
  \/ \E eid \in Eids : \E updateFields \in UpdateBags : updateEmployeeByEid(eid, updateFields)
  \/ \E eid \in Eids : deleteEmployeeByEid(eid)

SpecEmployees == Init /\ [][NextEmployees]_vars

----------------------------------------------------------------------------
(* Stored users, as a set *)
StoredUsers == {users[i] : i \in 1..Len(users)}

(* C1: under any interleaving of signups no two stored User records share a *)
(* username or an email; a save whose username or email is already stored   *)
(* (the concurrent signup that lost the race) is rejected by the store and  *)
(* leaves the collection as it was.                                         *)
C1_NoDuplicates ==
  \A i \in 1..Len(users) : \A j \in 1..Len(users) :
    (users[i].username = users[j].username \/ users[i].email = users[j].email) => i = j

C1_SaveRejected ==
  \A p \in 1..MaxProcs :
    ( /\ procs[p].pc = "save"
      /\ procs'[p].pc = "idle"
      /\ \E u \in StoredUsers :
           u.username = procs[p].username \/ u.email = procs[p].email )
    => /\ users' = users
       /\ last'.op = "signup"
       /\ last'.kind = "DuplicateKey"

C1_UniqueUnderRace == [](C1_NoDuplicates) /\ [][C1_SaveRejected]_vars

(* two signups both passed the existence check and the second was rejected *)
C1_Witness ==
  /\ last.op = "signup"
  /\ last.kind = "DuplicateKey"
  /\ \E u \in StoredUsers : u.username = last.args.username
  /\ Len(users) >= 1

(* C2: a signup with valid arguments whose username or email is stored      *)
(* fails with AlreadyExists, and none of its steps changes the stored users *)
(* (which are never removed or rewritten by anything else meanwhile).       *)
C2_Step ==
  /\ \A i \in 1..Len(users) : Len(users') >= i /\ users'[i] = users[i]
  /\ \A p \in 1..MaxProcs :
       /\ (procs[p].pc = "idle" /\ procs'[p].pc = "find") => users' = users
       /\ ( /\ procs[p].pc = "find"
            /\ procs'[p] # procs[p]
            /\ \E u \in StoredUsers :
                 u.username = procs[p].username \/ u.email = procs[p].email )
          => /\ users' = users
             /\ procs'[p].pc = "idle"
             /\ last'.op = "signup"
             /\ last'.kind = "AlreadyExists"
             /\ last'.args.username = procs[p].username
             /\ last'.args.email = procs[p].email

C2_ExistingRejected == [][C2_Step]_vars

(* a signup was refused because only its email was already stored *)
C2_Witness ==
  /\ last.op = "signup"
  /\ last.kind = "AlreadyExists"
  /\ \E u \in StoredUsers : u.email = last.args.email /\ u.username # last.args.username

(* C3 as stated: every signup with a password shorter than 6 fails citing  *)
(* `password`, whatever the username and email are.                        *)
C3_Original ==
  (last.op = "signup" /\ Len(last.args.password) < 6)
  => (last.kind = "InvalidArgument" /\ last.invalidArgs = <<"password">>)

(* C3: every signup with a password shorter than 6 whose username is not  *)
(* blank and whose email is not blank and has the local@domain.tld shape   *)
(* fails with InvalidArgument citing `password`.                           *)
C3_ShortPassword ==
  ( /\ last.op = "signup"
    /\ Len(last.args.password) < 6
    /\ trim(last.args.username) # E
    /\ trim(last.args.email) # E
    /\ emailRegexTest(last.args.email) )
  => (last.kind = "InvalidArgument" /\ last.invalidArgs = <<"password">>)

C3_Witness ==
  /\ last.op = "signup"
  /\ last.args.password = P5
  /\ last.args.username = <<"a">>
  /\ last.args.email = MailA
  /\ last.invalidArgs = <<"password">>

(* C4: login (with username or email, and a password, supplied) returns a  *)
(* User only if that User is stored, matches the username or the email and *)
(* the password verifies against its hash; it fails with NotFound exactly  *)
(* when no stored User matches, and with InvalidCredential only on a       *)
(* matching User whose hash the password does not verify, always so when   *)
(* the password verifies against no matching User.                         *)
C4_Supplied ==
  /\ ~(Falsy(last.args.username) /\ Falsy(last.args.email))
  /\ ~Falsy(last.args.password)

C4_Matching ==
  {u \in StoredUsers : u.username = last.args.username \/ u.email = last.args.email}

C4_Login ==
  (last.op = "login" /\ C4_Supplied)
  => /\ last.kind \in {"Ok", "NotFound", "InvalidCredential"}
     /\ last.kind = "Ok" =>
          \E u \in C4_Matching :
            last.value = {u} /\ bcryptCompare(last.args.password, u.password)
     /\ last.kind = "NotFound" <=> C4_Matching = {}
     /\ last.kind = "InvalidCredential" =>
          \E u \in C4_Matching : ~bcryptCompare(last.args.password, u.password)
     /\ ( /\ C4_Matching # {}
          /\ \A u \in C4_Matching : ~bcryptCompare(last.args.password, u.password) )
        => last.kind = "InvalidCredential"

(* a stored user was found by username and the password was wrong *)
C4_Witness ==
  /\ last.op = "login"
  /\ last.kind = "InvalidCredential"
  /\ \E u \in StoredUsers :
       u.username = last.args.username /\ u.password.digest[2] # last.args.password

(* C5: deleteEmployeeByEid with a non-empty identifier succeeds with the     *)
(* confirmation message whether or not the identifier is stored; a delete of *)
(* an identifier that is not stored, and so the second of two deletes in a   *)
(* row of the same identifier, leaves the store unchanged.                   *)
C5_Step ==
  (last'.op = "deleteEmployeeByEid" /\ last'.args.eid # 0)
  => /\ last'.kind = "Ok"
     /\ last'.value = {"Employee deleted successfully"}
     /\ last'.args.eid \notin DOMAIN employees'
     /\ \A i \in DOMAIN employees \ {last'.args.eid} :
          i \in DOMAIN employees' /\ employees'[i] = employees[i]
     /\ last'.args.eid \notin DOMAIN employees => employees' = employees
     /\ (last.op = "deleteEmployeeByEid" /\ last.args.eid = last'.args.eid)
        => employees' = employees

C5_DeleteIdempotent == [][C5_Step]_vars

(* a stored record was deleted; the same delete can be repeated *)
C5_Witness ==
  /\ last.op = "deleteEmployeeByEid"
  /\ last.kind = "Ok"
  /\ last.args.eid \in 1..(nextId - 1)
  /\ last.args.eid \notin DOMAIN employees
  /\ DOMAIN employees # {}

(* C6: updateEmployeeByEid with a non-empty identifier that matches no      *)
(* stored Employee fails with NotFound, each time, and leaves the stored    *)
(* Employee records as they were.                                           *)
C6_Step ==
  ( /\ last'.op = "updateEmployeeByEid"
    /\ last'.args.eid # 0
    /\ last'.args.eid \notin DOMAIN employees )
  => /\ last'.kind = "NotFound"
     /\ employees' = employees

C6_UpdateMissing == [][C6_Step]_vars

C6_Witness ==
  /\ last.op = "updateEmployeeByEid"
  /\ last.kind = "NotFound"
  /\ last.args.updateFields # <<>>
  /\ DOMAIN employees # {}

(* C7: a searchEmployeeByEid that immediately follows a successful          *)
(* addNewEmployee, on the identifier it returned, returns a record with     *)
(* that identifier whose fields equal every supplied input field.           *)
C7_Step ==
  \A added \in last.value :
    ( /\ last.op = "addNewEmployee"
      /\ last.kind = "Ok"
      /\ last'.op = "searchEmployeeByEid"
      /\ last'.args.eid = added.id )
    => \E found \in last'.value :
         /\ found.id = added.id
         /\ \A f \in DOMAIN last.args : found.doc[f] = last.args[f]

C8_RecordValid(doc) ==
  /\ \A f \in RequiredStrings : doc[f] # Null /\ trim(doc[f]) # E
  /\ doc["salary"] >= 1000
  /\ doc["date_of_joining"] # Null /\ doc["date_of_joining"] # E

C8_RequiredHold == \A i \in DOMAIN employees : C8_RecordValid(employees[i])

(* C9: the field a failing addNewEmployee names *)
C9_Violates(args, f) ==
  CASE f = "salary" -> args[f] < 1000
    [] f = "date_of_joining" -> args[f] = E
    [] OTHER -> trim(args[f]) = E

C9_Violated(args) == {f \in RequiredFields : C9_Violates(args, f)}

C9_First(args, order) ==
  order[CHOOSE k \in 1..Len(order) :
          /\ C9_Violates(args, order[k])
          /\ \A j \in 1..(k - 1) : ~C9_Violates(args, order[j])]

C9_StatedOrder ==
  <<"first_name", "last_name", "designation", "department", "salary", "date_of_joining">>

C9_CheckOrder ==
  <<"first_name", "last_name", "designation", "salary", "date_of_joining", "department">>

(* C9 as stated: a failing addNewEmployee names the first violated field   *)
(* in the order first_name, last_name, designation, department, salary,    *)
(* date_of_joining.                                                        *)
C9_Original ==
  (last.op = "addNewEmployee" /\ C9_Violated(last.args) # {})
  => /\ last.kind = "InvalidArgument"
     /\ last.invalidArgs = <<C9_First(last.args, C9_StatedOrder)>>

(* C9: an addNewEmployee whose arguments violate one or more constraints   *)
(* fails with InvalidArgument naming exactly the first violated field in   *)
(* the order first_name, last_name, designation, salary, date_of_joining,  *)
(* department, and persists no Employee.                                   *)
C9_Step ==
  (last'.op = "addNewEmployee" /\ C9_Violated(last'.args) # {})
  => /\ last'.kind = "InvalidArgument"
     /\ last'.invalidArgs = <<C9_First(last'.args, C9_CheckOrder)>>
     /\ employees' = employees
     /\ nextId' = nextId

C9_FirstFailure == [][C9_Step]_vars

(* salary and department both violated: salary is named *)
C9_Witness ==
  /\ last.op = "addNewEmployee"
  /\ last.args.salary = 999
  /\ last.args.department = SP
  /\ last.invalidArgs = <<"salary">>

(* C10: a successful updateEmployeeByEid sets the supplied fields on the   *)
(* record it names and nothing else: the record's other fields, the other  *)
(* Employee records and the User records are unchanged, and the record     *)
(* returned is the stored record after the update.                         *)
C10_Step ==
  (last'.op = "updateEmployeeByEid" /\ last'.kind = "Ok")
  => LET eid == last'.args.eid
         updateFields == last'.args.updateFields
     IN /\ eid \in DOMAIN employees
        /\ DOMAIN employees' = DOMAIN employees
        /\ \A f \in EmployeeFields \ DOMAIN updateFields :
             employees'[eid][f] = employees[eid][f]
        /\ \A f \in DOMAIN updateFields : employees'[eid][f] = updateFields[f]
        /\ \A i \in DOMAIN employees \ {eid} : employees'[i] = employees[i]
        /\ users' = users
        /\ last'.value = {[id |-> eid, doc |-> employees'[eid]]}

C10_UpdateFrame == [][C10_Step]_vars

(* one of two stored records was updated in some but not all of its fields *)
C10_Witness ==
  /\ last.op = "updateEmployeeByEid"
  /\ last.kind = "Ok"
  /\ Cardinality(DOMAIN employees) >= 2
  /\ DOMAIN last.args.updateFields # {}
  /\ employees[last.args.eid]["last_name"] = <<"B">>
  /\ \E i \in DOMAIN employees : employees[i] # employees[last.args.eid]

====
